---- MODULE Spec2Model ----
(***************************************************************************)
(* Orchestration layer of src/app.py:                                      *)
(*   - the Investor.subject_list linker (update_student_subject_list and   *)
(*     the /update_student_subjects endpoint),                             *)
(*   - the /process_all provisioning saga,                                 *)
(*   - the /generate_itp dispatch-and-poll workflow.                       *)
(* DynamoDB get_item / update_item / put_item and every HTTP call are      *)
(* single atomic steps; what a handler computes between two of them is     *)
(* folded into the step that follows.                                      *)
(***************************************************************************)
EXTENDS Integers, Sequences, FiniteSets, TLC

(***************************************************************************)
(* Bounds of the model.                                                    *)
(***************************************************************************)
MaxStudents == 2
MaxInitLen == 0
MaxSagaStudents == 3
MaxIcpRequests == 2
MaxCancelPolls == 2

(***************************************************************************)
(* Strings that the code transforms are sequences of characters.           *)
(***************************************************************************)
LowerChar(c) ==
    CASE c = "F" -> "f"
      [] c = "O" -> "o"
      [] OTHER -> c

\* str.lower()
Lower(s) == [i \in DOMAIN s |-> LowerChar(s[i])]

Emails == { <<"F", "o">>, <<"f", "o">> }
UUIDs == { "u1", "u2" }

\* body.get("lesson_planner_UUID") of a body without the field
NoUuid == "none"
\* get_item response without "Item"
NoItem == [found |-> FALSE]
\* a table slot holding no record
Absent == [present |-> FALSE]
\* a stored Investor record; has_list is whether it has the subject_list attribute
Item(k, has, lst) == [present |-> TRUE, email |-> k, has_list |-> has, subject_list |-> lst]

\* two request handlers that may run at the same time
Reqs == { 1, 2 }

RECURSIVE SeqsUpTo(_, _)
SeqsUpTo(S, n) ==
    IF n = 0 THEN { <<>> }
    ELSE LET shorter == SeqsUpTo(S, n - 1)
         IN shorter \cup { Append(s, x) : s \in { t \in shorter : Len(t) = n - 1 }, x \in S }

Range(s) == { s[i] : i \in DOMAIN s }
Count(s, x) == Cardinality({ i \in DOMAIN s : s[i] = x })
NoDup(s) == \A i, j \in DOMAIN s : s[i] = s[j] => i = j

VARIABLES
    investor,   \* table Investor: email -> Absent | Item
    req,        \* the linker requests: locals of the handler, and what it has done
    lastw,      \* per Investor key, the loop iteration <<request, i>> that wrote it last
    gradeSubject,   \* table Grade_and_Subject: lesson UUID -> NoRecord | item
    saga,       \* the /process_all request: locals of the handler, and what it has done
    itp,        \* the /generate_itp request: locals of the handler, and what it has done
    icp         \* the /generate_icp requests: locals of the handler, and what they have done

linkVars == << investor, req, lastw >>
sagaVars == << gradeSubject, saga >>
vars == << investor, req, lastw, gradeSubject, saga, itp, icp >>

(***************************************************************************)
(* Investor table.                                                         *)
(***************************************************************************)
\* Investor.get_item(Key={"email": k})
GetItem(k) ==
    IF k \notin DOMAIN investor \/ ~investor[k].present
    THEN NoItem
    ELSE [found |-> TRUE, item |-> investor[k]]

\* student_item.get("subject_list", [])
SubjectList(item) ==
    IF item.has_list THEN item.subject_list ELSE <<>>

\* (mutation) the write keyed by the email as the caller gave it
WriteKeyAsGiven(r) == req[r].students[req[r].i]

\* the Key of update_item: the stored key of the record that was read
WriteKey(r) == req[r].resp.item.email

\* (mutation) the value appended to the list as stored at the time of the write
\* (SET subject_list = list_append(subject_list, :v)) instead of to the list read
NewListAppendStored(r) ==
    Append(SubjectList(investor[req[r].resp.item.email]), req[r].uuid)

\* the value written: subject_list.append(lesson_uuid)
NewList(r) == Append(SubjectList(req[r].resp.item), req[r].uuid)

\* (mutation) the membership test left out
MustWriteAlways(r) == TRUE

\* if lesson_uuid not in subject_list  /  if lesson_uuid in subject_list ... else
MustWrite(r) == req[r].uuid \notin Range(SubjectList(req[r].resp.item))

\* no Investor call of the request has raised
NoCall == "none"

IdleReq ==
    [ pc |-> "idle", kind |-> "none", uuid |-> NoUuid, students |-> <<>>, i |-> 0,
      resp |-> NoItem, updated |-> <<>>, already_linked |-> <<>>,
      not_found |-> <<>>, trace |-> <<>>, http |-> 0, raised |-> NoCall ]

InitLists == { s \in SeqsUpTo(UUIDs, MaxInitLen) : NoDup(s) }

InitStores ==
    { f \in [ Emails -> {Absent} \cup { Item(k, h, l) : k \in Emails, h \in BOOLEAN, l \in InitLists } ] :
        \A k \in Emails : f[k].present =>
            /\ f[k].email = k
            /\ (~f[k].has_list => f[k].subject_list = <<>>) }

NoWriter == << 0, 0 >>

InitLink ==
    /\ investor \in InitStores
    /\ req = [ r \in Reqs |-> IdleReq ]
    /\ lastw = [ k \in Emails |-> NoWriter ]

\* the linker at rest on an empty table
LinkIdle ==
    /\ investor = [ k \in Emails |-> Absent ]
    /\ req = [ r \in Reqs |-> IdleReq ]
    /\ lastw = [ k \in Emails |-> NoWriter ]

\* api_update_student_subjects up to the loop, or a call of
\* update_student_subject_list(email, uuid)
\* (handlers are taken in the order of their numbers)
LinkStart(r, kind, uuid, students) ==
    /\ req[r].pc = "idle"
    /\ \A p \in Reqs : p < r => req[p].pc # "idle"
    /\ IF kind = "api" /\ (uuid = NoUuid \/ students = <<>>)
       THEN req' = [req EXCEPT ![r] =
                [IdleReq EXCEPT !.pc = "done", !.kind = kind, !.uuid = uuid,
                                !.students = students, !.http = 400]]
       ELSE req' = [req EXCEPT ![r] =
                [IdleReq EXCEPT !.pc = "get1", !.kind = kind, !.uuid = uuid,
                                !.students = students, !.i = 1]]
    /\ UNCHANGED << investor, lastw, sagaVars, itp, icp >>

CurEmail(r) == req[r].students[req[r].i]

\* except Exception as e: the handler answers {"status": "error", "error": str(e),
\* ...}, 500 with the emails left unprocessed; the helper prints and returns None
\* (call: the Investor call that raised)
LinkExcept(q, r, call) ==
    [q EXCEPT ![r].pc = "done", ![r].resp = NoItem, ![r].raised = call,
              ![r].http = IF q[r].kind = "api" THEN 500 ELSE 0]

\* resp = Investor.get_item(Key={"email": email}), which may raise
LinkGet1(r, raised) ==
    /\ req[r].pc = "get1"
    /\ LET resp == GetItem(CurEmail(r))
       IN req' = IF raised THEN LinkExcept(req, r, "get_item")
                 ELSE [req EXCEPT ![r].resp = resp,
                                  ![r].pc = IF ~resp.found /\ Lower(CurEmail(r)) # CurEmail(r)
                                            THEN "get2" ELSE "decide"]
    /\ UNCHANGED << investor, lastw, sagaVars, itp, icp >>

\* resp = Investor.get_item(Key={"email": email.lower()}), which may raise
LinkGet2(r, raised) ==
    /\ req[r].pc = "get2"
    /\ req' = IF raised THEN LinkExcept(req, r, "get_item")
              ELSE [req EXCEPT ![r].resp = GetItem(Lower(CurEmail(r))), ![r].pc = "decide"]
    /\ UNCHANGED << investor, lastw, sagaVars, itp, icp >>

\* (mutation) the handler returning after the first email
AdvanceReturn(q, r) ==
    [q EXCEPT ![r].pc = "done", ![r].resp = NoItem,
              ![r].http = IF q[r].kind = "api" THEN 200 ELSE 0]

\* the end of one loop iteration: the next email, or the response
Advance(q, r) ==
    IF q[r].i < Len(q[r].students)
    THEN [q EXCEPT ![r].i = @ + 1, ![r].pc = "get1", ![r].resp = NoItem]
    ELSE [q EXCEPT ![r].pc = "done", ![r].resp = NoItem,
                   ![r].http = IF q[r].kind = "api" THEN 200 ELSE 0]

\* if "Item" not in resp: not_found.append(email); continue   (the helper: return)
LinkNotFound(r) ==
    /\ req[r].pc = "decide"
    /\ ~req[r].resp.found
    /\ req' = Advance(
         [req EXCEPT
            ![r].not_found = IF req[r].kind = "api" THEN Append(@, CurEmail(r)) ELSE @,
            ![r].trace = Append(@, [email |-> CurEmail(r), found |-> FALSE,
                                    key |-> <<>>, snap |-> <<>>, wrote |-> FALSE])], r)
    /\ UNCHANGED << investor, lastw, sagaVars, itp, icp >>

\* if lesson_uuid in subject_list: already_linked.append(student_item["email"])
LinkAlready(r) ==
    /\ req[r].pc = "decide"
    /\ req[r].resp.found
    /\ ~MustWrite(r)
    /\ req' = Advance(
         [req EXCEPT
            ![r].already_linked = IF req[r].kind = "api" THEN Append(@, req[r].resp.item.email) ELSE @,
            ![r].trace = Append(@, [email |-> CurEmail(r), found |-> TRUE,
                                    key |-> req[r].resp.item.email,
                                    snap |-> SubjectList(req[r].resp.item), wrote |-> FALSE])], r)
    /\ UNCHANGED << investor, lastw, sagaVars, itp, icp >>

\* subject_list.append(lesson_uuid); Investor.update_item(Key=..., SET subject_list = :s)
LinkUpdate(r) ==
    /\ req[r].pc = "decide"
    /\ req[r].resp.found
    /\ MustWrite(r)
    /\ investor' = [investor EXCEPT ![WriteKey(r)] = Item(WriteKey(r), TRUE, NewList(r))]
    /\ lastw' = [lastw EXCEPT ![WriteKey(r)] = << r, req[r].i >>]
    /\ UNCHANGED << sagaVars, itp, icp >>
    /\ req' = Advance(
         [req EXCEPT
            ![r].updated = IF req[r].kind = "api" THEN Append(@, req[r].resp.item.email) ELSE @,
            ![r].trace = Append(@, [email |-> CurEmail(r), found |-> TRUE,
                                    key |-> WriteKey(r),
                                    snap |-> SubjectList(req[r].resp.item), wrote |-> TRUE])], r)

\* subject_list.append(lesson_uuid); Investor.update_item(...) raises: nothing is
\* written and the except branch ends the request
LinkUpdateRaise(r) ==
    /\ req[r].pc = "decide"
    /\ req[r].resp.found
    /\ MustWrite(r)
    /\ req' = LinkExcept(req, r, "update_item")
    /\ UNCHANGED << investor, lastw, sagaVars, itp, icp >>

LinkInputs(kind) ==
    IF kind = "api"
    THEN (UUIDs \cup {NoUuid}) \X SeqsUpTo(Emails, MaxStudents)
    ELSE UUIDs \X { <<e>> : e \in Emails }

LinkStep(r) ==
    \/ \E raised \in BOOLEAN : LinkGet1(r, raised)
    \/ \E raised \in BOOLEAN : LinkGet2(r, raised)
    \/ LinkNotFound(r)
    \/ LinkAlready(r)
    \/ LinkUpdate(r)
    \/ LinkUpdateRaise(r)

NextLink ==
    \E r \in Reqs :
        \/ \E kind \in {"api", "fn"} : \E in \in LinkInputs(kind) :
               LinkStart(r, kind, in[1], in[2])
        \/ LinkStep(r)

\* no request is between its start and its return
Quiet == \A r \in Reqs : req[r].pc \in {"idle", "done"}

NextLinkSeq ==
    \E r \in Reqs :
        \/ \E kind \in {"api", "fn"} : \E in \in LinkInputs(kind) :
               Quiet /\ LinkStart(r, kind, in[1], in[2])
        \/ LinkStep(r)

(***************************************************************************)
(* HTTP responses and JSON bodies, as far as the handlers look into them.  *)
(* A JSON object is the value it holds under the one key its reader asks   *)
(* for (Missing: the key is not there).                                    *)
(***************************************************************************)
None == "<None>"
Missing == "<missing>"
Raised == "<raised>"

\* Python truthiness of None, "" and a non-empty value
Truthy(x) == x \notin { None, "" }

JDict(v) == [j |-> "dict", val |-> v]
JList(items) == [j |-> "list", items |-> items]
JScalar == [j |-> "scalar"]
JRaised == [j |-> "raised"]

\* dict.get(key)
Get(d) == IF d.val = Missing THEN None ELSE d.val

RaisedResp == [kind |-> "raise"]
Http(status, body) == [kind |-> "http", status |-> status, body |-> body]
Blank == [t |-> "blank"]
NonJson == [t |-> "text"]
Json(v) == [t |-> "json", v |-> v]

\* the JSON values an endpoint may answer with, the read key holding one of vals
JsonValues(vals) ==
    { JDict(v) : v \in vals \cup {Missing} }
        \cup { JList(<<>>), JList(<< JScalar >>), JScalar }
        \cup { JList(<< JDict(v) >>) : v \in vals \cup {Missing} }

\* every outcome of one requests.post / requests.get
Responses(vals) ==
    {RaisedResp}
        \cup { Http(st, b) : st \in {200, 500},
                             b \in {Blank, NonJson} \cup { Json(v) : v \in JsonValues(vals) } }

\* resp.text.strip()
HasText(resp) == resp.body.t # "blank"

(***************************************************************************)
(* The helpers of process_all, as functions of the response they receive.  *)
(***************************************************************************)
\* insert_into_school, first call: the school_id, or Raised (caught by the helper)
SchoolId(resp) ==
    IF resp.kind = "raise" THEN Raised
    ELSE IF ~HasText(resp) THEN None
    ELSE IF resp.body.t = "text" THEN Raised
    ELSE LET data == resp.body.v
         IN  IF data.j = "list" /\ data.items # <<>>
             THEN IF data.items[1].j = "dict" THEN Get(data.items[1]) ELSE Raised
             ELSE None

\* insert_into_school, second call: the value returned as subject_id
SubjectId(resp) ==
    IF resp.kind = "raise" THEN None
    ELSE IF resp.status = 200 /\ HasText(resp)
         THEN IF resp.body.t = "json" /\ resp.body.v.j = "dict"
              THEN Get(resp.body.v)
              ELSE None
         ELSE None

\* get_student_id_by_email: the student_id, or Raised (requests.get is outside the try)
StudentId(resp) ==
    IF resp.kind = "raise" THEN Raised
    ELSE IF resp.status = 200 /\ HasText(resp)
         THEN IF resp.body.t = "json" /\ resp.body.v.j = "list" /\ resp.body.v.items # <<>>
                 /\ resp.body.v.items[1].j = "dict"
              THEN Get(resp.body.v.items[1])
              ELSE None
         ELSE None

\* assign_subject_to_student: resp.json() if resp.text.strip() else {}
\* (JRaised: the call raised)
AssignResp(resp) ==
    IF resp.kind = "raise" THEN JRaised
    ELSE IF ~HasText(resp) THEN JDict(Missing)
    ELSE IF resp.body.t = "text" THEN JRaised
    ELSE resp.body.v

\* assign_resp.get("status"): a list or a scalar has no get
AssignStatus(v) ==
    IF v.j = "dict" THEN Get(v) ELSE Raised

\* insert_subject_teacher_relation: "ok", or Raised
TeacherInsert(resp) ==
    IF resp.kind = "raise" THEN Raised
    ELSE IF resp.status # 200 THEN Raised
    ELSE IF HasText(resp) /\ resp.body.t = "text" THEN Raised
    ELSE "ok"

\* (mutation) the body of a 200 answer not looked at
PlannerInsertStatusOnly(resp) ==
    IF resp.kind = "raise" THEN Raised
    ELSE IF resp.status # 200 THEN Raised
    ELSE "ok"

\* insert_lesson_planner_payload: "ok", or Raised
PlannerInsert(resp) ==
    IF resp.kind = "raise" THEN Raised
    ELSE IF resp.status # 200 THEN Raised
    ELSE IF resp.body.t = "json" /\ resp.body.v.j = "dict" /\ Truthy(Get(resp.body.v))
         THEN Raised
         ELSE "ok"

(***************************************************************************)
(* /process_all                                                            *)
(***************************************************************************)
NoRecord == [present |-> FALSE]

\* what a call's answer looked like: raised, or its status_code and the kind of
\* its text (blank, text that is not JSON, JSON)
NoAnswer == [kind |-> "none"]
\* resp.status_code of a call: none made, the call raised, or the status
NotCalled == 0
CallRaised == -1
StatusOf(resp) == IF resp.kind = "raise" THEN CallRaised ELSE resp.status
\* the body is a JSON object with an error field that is set
HasError(resp) ==
    /\ resp.kind = "http"
    /\ resp.body.t = "json"
    /\ resp.body.v.j = "dict"
    /\ Truthy(Get(resp.body.v))
Answer(resp) ==
    IF resp.kind = "raise" THEN [kind |-> "raise"]
    ELSE [kind |-> "http", status |-> resp.status, t |-> resp.body.t]

IdleSaga ==
    [ pc |-> "idle", uuid |-> NoUuid, students |-> <<>>, teacher_id |-> None,
      put |-> "none", school_id |-> None, subject_id |-> None,
      i |-> 0, student_id |-> None,
      assigned |-> <<>>, not_found |-> <<>>, failed |-> <<>>,
      calls |-> <<>>, outcomes |-> <<>>,
      school_resp |-> NoAnswer, subject_resp |-> NoAnswer,
      teacher_status |-> NotCalled, planner_status |-> NotCalled, planner_error |-> FALSE,
      resp |-> [status |-> "none", http |-> 0] ]

InitSaga ==
    /\ gradeSubject = [ u \in UUIDs |-> NoRecord ]
    /\ saga = IdleSaga

\* the except branch: {"status": "error", ...}, 400
SagaError(s) == [s EXCEPT !.pc = "done", !.resp = [status |-> "error", http |-> 400]]

\* the return of the try branch
SagaSuccess(s) ==
    [s EXCEPT !.pc = "done",
              !.resp = [ status |-> "success", http |-> 200, uuid |-> s.uuid,
                         assigned_students |-> s.assigned,
                         not_found_students |-> s.not_found,
                         failed_assignments |-> s.failed ]]

Called(s, op) == [s EXCEPT !.calls = Append(@, op)]

\* request.json, data["body"], lesson_data["lesson_planner_UUID"]
SagaStart(hasUuid, uuid, students, teacher) ==
    /\ saga.pc = "idle"
    /\ saga' = IF hasUuid
               THEN [saga EXCEPT !.pc = "put", !.uuid = uuid, !.students = students,
                                 !.teacher_id = teacher]
               ELSE SagaError(saga)
    /\ UNCHANGED << gradeSubject, linkVars, itp, icp >>

\* (mutation) the saga going on after a failed write of the lesson record
AfterPutAlwaysOn(s, raised) == [s EXCEPT !.pc = "school", !.put = IF raised THEN "raised" ELSE "ok"]

\* what follows Grade_and_Subject.put_item
AfterPut(s, raised) ==
    IF raised THEN SagaError([s EXCEPT !.put = "raised"])
    ELSE [s EXCEPT !.pc = "school", !.put = "ok"]

\* (mutation) the lesson record taken back when the request ends in error
TableAfterRollback(s) ==
    IF s.pc = "done" /\ s.resp.status = "error"
    THEN [gradeSubject EXCEPT ![s.uuid] = NoRecord]
    ELSE gradeSubject

\* table Grade_and_Subject after a step that follows step 1: none of them, nor
\* the except branch, makes a call on the table
TableAfter(s) == gradeSubject

\* Step 1: Grade_and_Subject.put_item(Item=item)
SagaPut(raised) ==
    /\ saga.pc = "put"
    /\ gradeSubject' =
         IF raised THEN gradeSubject
         ELSE [gradeSubject EXCEPT ![saga.uuid] =
                 [ present |-> TRUE, id |-> saga.uuid, status |-> "Active",
                   tenantEmail |-> "sierracanyon@edyou.com",
                   quiz_credit |-> 0, course_credit |-> 0 ]]
    /\ saga' = AfterPut(Called(saga, "put_item"), raised)
    /\ UNCHANGED << linkVars, itp, icp >>

\* if subject_id and teacher_id
TeacherDue(s) == Truthy(s.subject_id) /\ Truthy(s.teacher_id)

\* the code after the student loop, up to the next call
AfterStudents(s) ==
    [s EXCEPT !.pc = IF TeacherDue(s) THEN "teacher" ELSE "planner"]

\* the code after insert_into_school returned, up to the next call
AfterSchool(s) ==
    IF Truthy(s.subject_id) /\ s.students # <<>>
    THEN [s EXCEPT !.pc = "lookup", !.i = 1]
    ELSE AfterStudents(s)

\* Step 2, first call: requests.post(url_get_school, ...)
SagaSchool(resp) ==
    /\ saga.pc = "school"
    /\ LET sid == SchoolId(resp)
           s == [Called(saga, "get_school") EXCEPT !.school_resp = Answer(resp)]
       IN  saga' = IF sid # Raised /\ Truthy(sid)
                   THEN [s EXCEPT !.school_id = sid, !.pc = "subject"]
                   ELSE AfterSchool([s EXCEPT !.subject_id = None])
    /\ gradeSubject' = TableAfter(saga')
    /\ UNCHANGED << linkVars, itp, icp >>

\* Step 2, second call: requests.post(url_insert_subject, ...)
SagaSubject(resp) ==
    /\ saga.pc = "subject"
    /\ saga' = AfterSchool([Called(saga, "insert_subject") EXCEPT
                               !.subject_id = SubjectId(resp),
                               !.subject_resp = Answer(resp)])
    /\ gradeSubject' = TableAfter(saga')
    /\ UNCHANGED << linkVars, itp, icp >>

\* the end of one iteration of the student loop
NextStudent(s) ==
    IF s.i < Len(s.students)
    THEN [s EXCEPT !.i = @ + 1, !.pc = "lookup", !.student_id = None]
    ELSE AfterStudents([s EXCEPT !.student_id = None])

\* Step 2.5: student_id = get_student_id_by_email(student_email)
SagaLookup(resp) ==
    /\ saga.pc = "lookup"
    /\ LET sid == StudentId(resp)
           s == Called(saga, "get_student")
           email == saga.students[saga.i]
       IN  saga' =
             IF sid = Raised THEN SagaError(s)
             ELSE IF Truthy(sid) THEN [s EXCEPT !.student_id = sid, !.pc = "assign"]
             ELSE NextStudent([s EXCEPT
                      !.not_found = Append(@, email),
                      !.outcomes = Append(@, [sid |-> sid, status |-> None])])
    /\ gradeSubject' = TableAfter(saga')
    /\ UNCHANGED << linkVars, itp, icp >>

\* (mutation) any status that is given counts as assigned
IsAssignedLoose(status) == Truthy(status)

\* if assign_resp.get("status") == "assigned"
IsAssigned(status) == status = "assigned"

\* Step 2.5: assign_resp = assign_subject_to_student(student_id, subject_id)
SagaAssign(resp) ==
    /\ saga.pc = "assign"
    /\ LET v == AssignResp(resp)
           status == AssignStatus(v)
           s == Called(saga, "assign_subject")
           email == saga.students[saga.i]
           o == [sid |-> saga.student_id, status |-> status]
       IN  saga' =
             IF status = Raised THEN SagaError(s)
             ELSE IF IsAssigned(status)
             THEN NextStudent([s EXCEPT
                      !.assigned = Append(@, [email |-> email, student_id |-> saga.student_id]),
                      !.outcomes = Append(@, o)])
             ELSE NextStudent([s EXCEPT
                      !.failed = Append(@, [email |-> email, student_id |-> saga.student_id,
                                            resp |-> v]),
                      !.outcomes = Append(@, o)])
    /\ gradeSubject' = TableAfter(saga')
    /\ UNCHANGED << linkVars, itp, icp >>

\* Step 3: insert_subject_teacher_relation(subject_id, teacher_id)
SagaTeacher(resp) ==
    /\ saga.pc = "teacher"
    /\ LET s == [Called(saga, "insert_subject_teacher") EXCEPT !.teacher_status = StatusOf(resp)]
       IN  saga' = IF TeacherInsert(resp) = Raised THEN SagaError(s)
                   ELSE [s EXCEPT !.pc = "planner"]
    /\ gradeSubject' = TableAfter(saga')
    /\ UNCHANGED << linkVars, itp, icp >>

\* Step 4: insert_lesson_planner_payload(lesson_data), then the response
SagaPlanner(resp) ==
    /\ saga.pc = "planner"
    /\ LET s == [Called(saga, "insert_lesson_planner") EXCEPT
                   !.planner_status = StatusOf(resp), !.planner_error = HasError(resp)]
       IN  saga' = IF PlannerInsert(resp) = Raised THEN SagaError(s)
                   ELSE SagaSuccess(s)
    /\ gradeSubject' = TableAfter(saga')
    /\ UNCHANGED << linkVars, itp, icp >>

Ids == { "", "id7" }
Statuses == { "assigned", "error" }

NextSaga ==
    \/ \E hasUuid \in BOOLEAN, uuid \in UUIDs, teacher \in {None, "", "t1"} :
         \E students \in SeqsUpTo(Emails, MaxSagaStudents) :
            SagaStart(hasUuid, uuid, students, teacher)
    \/ \E raised \in BOOLEAN : SagaPut(raised)
    \/ \E resp \in Responses(Ids) : SagaSchool(resp)
    \/ \E resp \in Responses(Ids) : SagaSubject(resp)
    \/ \E resp \in Responses(Ids) : SagaLookup(resp)
    \/ \E resp \in Responses(Statuses) : SagaAssign(resp)
    \/ \E resp \in Responses(Ids) : SagaTeacher(resp)
    \/ \E resp \in Responses({"", "failed"}) : SagaPlanner(resp)

(***************************************************************************)
(* /generate_itp                                                           *)
(***************************************************************************)
\* max_attempts = 80
max_attempts == 80
\* interval = 3
interval == 3

JobId == "J1"

\* what get_item on the job table may give: it raises, no Item, or an Item
\* whose Generated attribute is True, False, or neither
JobReads ==
    { [kind |-> "raise"], [kind |-> "absent"] }
        \cup { [kind |-> "item", Generated |-> g, series_title |-> t] :
                 g \in { "True", "False", "other" }, t \in { None, "Series" } }

\* the table check_itp_status_local reads
JobTable(pre_defined) == IF pre_defined THEN "Question_Prod" ELSE "User_ITP_Prod"

\* the dict check_itp_status_local returns for what it read
CheckItpStatus(itp_id, read) ==
    IF read.kind = "raise" THEN [statusCode |-> 500, error |-> "exception"]
    ELSE IF read.kind = "absent" THEN [statusCode |-> 404, message |-> "ITP not found"]
    ELSE IF read.Generated = "True"
         THEN [ statusCode |-> 200, isGenerated |-> "True",
                body |-> [id |-> itp_id, series_title |-> read.series_title] ]
    ELSE IF read.Generated = "False"
         THEN [ statusCode |-> 200, id |-> itp_id, isGenerated |-> "False",
                title |-> read.series_title ]
    ELSE [statusCode |-> 400, isGenerated |-> "error"]

\* (mutation) the loop left as soon as a read answers with statusCode 200
PollDoneOnStatus(check_resp) == check_resp.statusCode = 200

\* if check_resp.get("isGenerated"): True and "error" are truthy, False and None are not
PollDone(check_resp) ==
    "isGenerated" \in DOMAIN check_resp /\ check_resp.isGenerated \notin { "False", "" }

\* the answers of the initialize endpoint, as json.loads and the handler see them:
\* statusCode (Missing: no such key), and body: none, or with generating and id
InitResponses ==
    { [kind |-> "raise"], [kind |-> "nonjson"] }
        \cup { [kind |-> "json", statusCode |-> st, body |-> b] :
                 st \in { Missing, "200", "400", "500" },
                 b \in { [has |-> FALSE] }
                         \cup { [has |-> TRUE, generating |-> g, id |-> id] :
                                  g \in BOOLEAN, id \in { Missing, JobId } } }

IdleItp ==
    [ pc |-> "idle", user_id |-> None, predefined |-> TRUE, itp_id |-> None,
      init_resp |-> [kind |-> "none"], cancelled |-> FALSE, cancel_polls |-> 0,
      attempt |-> 0, polls |-> 0, waits |-> 0, clock |-> 0,
      nTrue |-> 0, nFalse |-> 0, nOther |-> 0, last |-> "none", tables |-> {},
      resp |-> [status |-> "none", http |-> 0] ]

InitItp == itp = IdleItp

ItpReturn(s, status, http, payload) ==
    [s EXCEPT !.pc = "done", !.resp = [status |-> status, http |-> http, payload |-> payload]]

\* data = request.json
ItpStart(user_id, predefined) ==
    /\ itp.pc = "idle"
    /\ itp' = [itp EXCEPT !.pc = "dispatch", !.user_id = user_id, !.predefined = predefined]
    /\ UNCHANGED << linkVars, sagaVars, icp >>

\* (mutation) every 200 answer taken as still generating
IsGeneratingAlways(body) == TRUE

\* init_resp['body'].get("generating") is True
IsGenerating(body) == body.generating

\* init_resp = json.loads(initialize_itp(data)) and the branches on it
ItpDispatch(r) ==
    /\ itp.pc = "dispatch"
    /\ LET s == [itp EXCEPT !.init_resp = r]
       IN  itp' =
             IF r.kind # "json" \/ r.statusCode = Missing
             THEN ItpReturn(s, "error", 500, [error |-> "exception"])
             ELSE IF r.statusCode = "400"
             THEN IF r.body.has
                  THEN ItpReturn(s, "already", 400, [body |-> r.body, statusCode |-> 400])
                  ELSE ItpReturn(s, "error", 500, [error |-> "exception"])
             ELSE IF r.statusCode = "200"
             THEN IF ~r.body.has
                  THEN ItpReturn(s, "error", 500, [error |-> "exception"])
                  ELSE IF IsGenerating(r.body)
                  THEN IF r.body.id = Missing
                       THEN ItpReturn(s, "error", 500, [error |-> "exception"])
                       ELSE [s EXCEPT !.pc = "sleep", !.itp_id = r.body.id]
                  ELSE ItpReturn(s, "passthrough", 200, [body |-> r.body, statusCode |-> 200])
             ELSE ItpReturn(s, "error", 400, [message |-> "Unexpected initialize response"])
    /\ UNCHANGED << linkVars, sagaVars, icp >>

\* time.sleep(interval)
ItpSleep ==
    /\ itp.pc = "sleep"
    /\ itp' = [itp EXCEPT !.pc = "poll", !.waits = @ + 1, !.clock = @ + interval]
    /\ UNCHANGED << linkVars, sagaVars, icp >>

\* the flag the handler passes as pre_defined
PollPreDefined(s) == TRUE

\* (mutation) the loop allowed one attempt more
MoreAttemptsInclusive(attempt) == attempt <= max_attempts

\* for attempt in range(max_attempts): whether another iteration follows
MoreAttempts(attempt) == attempt < max_attempts

\* check_resp = check_itp_status_local(itp_id, user_id, pre_defined=True), the
\* test on it, and the end of the loop
ItpPoll(read) ==
    /\ itp.pc = "poll"
    /\ LET check_resp == CheckItpStatus(itp.itp_id, read)
           s == [itp EXCEPT
                   !.attempt = @ + 1,
                   !.polls = @ + 1,
                   !.tables = @ \cup { JobTable(PollPreDefined(itp)) },
                   !.last = IF read.kind = "item" THEN read.Generated ELSE read.kind,
                   !.nTrue = IF read.kind = "item" /\ read.Generated = "True" THEN @ + 1 ELSE @,
                   !.nFalse = IF read.kind = "item" /\ read.Generated = "False" THEN @ + 1 ELSE @,
                   !.nOther = IF read.kind = "item" /\ read.Generated \in {"True", "False"}
                              THEN @ ELSE @ + 1]
       IN  itp' =
             IF PollDone(check_resp)
             THEN ItpReturn(s, "success", 200,
                            [message |-> "ITP generated successfully", data |-> check_resp])
             ELSE IF MoreAttempts(s.attempt)
             THEN [s EXCEPT !.pc = "sleep"]
             ELSE ItpReturn(s, "timeout", 202, [id |-> itp.itp_id])
    /\ UNCHANGED << linkVars, sagaVars, icp >>

\* the caller gives up (the client disconnects or its deadline passes) while the
\* handler is in its polling loop: the handler has no code that looks at it
ItpCancel ==
    /\ itp.pc \in {"sleep", "poll"}
    /\ ~itp.cancelled
    /\ itp.polls < MaxCancelPolls
    /\ itp' = [itp EXCEPT !.cancelled = TRUE, !.cancel_polls = itp.polls]
    /\ UNCHANGED << linkVars, sagaVars, icp >>

NextItp ==
    \/ \E user_id \in { None, <<"f", "o">> }, predefined \in BOOLEAN : ItpStart(user_id, predefined)
    \/ \E r \in InitResponses : ItpDispatch(r)
    \/ ItpSleep
    \/ \E read \in JobReads : ItpPoll(read)

(***************************************************************************)
(* /generate_icp                                                           *)
(***************************************************************************)
Topics == { "t1", "t2" }
Owners == { <<"f", "o">>, <<"g", "o">> }
Course == "course"

\* what invoke_lambda may give: lambda_client.invoke or json.loads raises, or the
\* function's result: without statusCode, or with one, and with or without body
InvokeResults ==
    { [kind |-> "raise"], [kind |-> "nostatus"] }
        \cup { [kind |-> "result", statusCode |-> st, body |-> b] :
                 st \in { 200, 400, 500 }, b \in { Missing, "created" } }

\* what the handler gives back: nothing yet, a response, an exception that leaves
\* the view function, or the view function ending without a return value
Pending == [kind |-> "pending"]
Escaped == [kind |-> "exception"]
NoReturn == [kind |-> "none"]
IcpResponse(http, body) == [kind |-> "response", http |-> http, status |-> body]

IdleIcp ==
    [ pc |-> "idle", n |-> 0, owner |-> None, topic |-> None, complete |-> FALSE,
      generated |-> 0, invoked |-> 0,
      gen_resp |-> NoAnswer, course |-> None, invoke_resp |-> [kind |-> "none"],
      result |-> Pending,
      gen_calls |-> [ k \in Owners \X Topics |-> 0 ],
      log |-> <<>> ]

InitIcp == icp = IdleIcp

\* what is kept of a request that has ended
Summary(s) ==
    [ owner |-> s.owner, topic |-> s.topic, generated |-> s.generated,
      invoked |-> s.invoked, result |-> s.result ]

\* data = request.json, the data.get(...) and generate_payload: complete says
\* whether data holds topic, audience, icp_UUID and description
IcpStart(owner, topic, complete) ==
    /\ \/ icp.pc = "idle"
       \/ icp.pc = "done" /\ icp.n < MaxIcpRequests
    /\ LET s == [icp EXCEPT
                   !.n = @ + 1, !.owner = owner, !.topic = topic, !.complete = complete,
                   !.generated = 0, !.invoked = 0,
                   !.gen_resp = NoAnswer, !.course = None,
                   !.invoke_resp = [kind |-> "none"], !.result = Pending,
                   !.log = IF icp.pc = "done" THEN Append(@, Summary(icp)) ELSE @]
       IN  icp' = IF complete
                  THEN [s EXCEPT !.pc = "generate"]
                  ELSE [s EXCEPT !.pc = "done", !.result = Escaped]
    /\ UNCHANGED << linkVars, sagaVars, itp >>

\* resp["course"] of resp = json.loads(resp_generate.text): the course, or Raised
CourseOf(resp) ==
    IF resp.body.t # "json" THEN Raised
    ELSE IF resp.body.v.j # "dict" THEN Raised
    ELSE IF resp.body.v.val = Missing THEN Raised
    ELSE resp.body.v.val

\* resp_generate = requests.post(url_icp_generate, ...) and the test on its status
IcpGenerate(resp) ==
    /\ icp.pc = "generate"
    /\ LET s == [icp EXCEPT
                   !.generated = @ + 1,
                   !.gen_calls[<< icp.owner, icp.topic >>] = @ + 1,
                   !.gen_resp = resp]
       IN  icp' =
             IF resp.kind = "raise"
             THEN [s EXCEPT !.pc = "done", !.result = Escaped]
             ELSE IF resp.status = 200
             THEN IF CourseOf(resp) = Raised
                  THEN [s EXCEPT !.pc = "done", !.result = Escaped]
                  ELSE [s EXCEPT !.pc = "invoke", !.course = CourseOf(resp)]
             ELSE [s EXCEPT !.pc = "done", !.result = NoReturn]
    /\ UNCHANGED << linkVars, sagaVars, itp >>

\* invoke_resp = invoke_lambda(payload_1) and the branches on its statusCode
IcpInvoke(r) ==
    /\ icp.pc = "invoke"
    /\ LET s == [icp EXCEPT !.invoked = @ + 1, !.invoke_resp = r, !.pc = "done"]
       IN  icp' =
             IF r.kind # "result"
             THEN [s EXCEPT !.result = Escaped]
             ELSE IF r.statusCode \in { 200, 400 }
             THEN IF r.body = Missing
                  THEN [s EXCEPT !.result = Escaped]
                  ELSE [s EXCEPT !.result = IcpResponse(r.statusCode, r.body)]
             ELSE [s EXCEPT !.result = NoReturn]
    /\ UNCHANGED << linkVars, sagaVars, itp >>

NextIcp ==
    \/ \E owner \in Owners, topic \in Topics, complete \in BOOLEAN :
          IcpStart(owner, topic, complete)
    \/ \E resp \in Responses({Course}) : IcpGenerate(resp)
    \/ \E r \in InvokeResults : IcpInvoke(r)

(***************************************************************************)
(* Specifications.                                                         *)
(***************************************************************************)
Init == InitLink /\ InitSaga /\ InitItp /\ InitIcp
Next == NextLink \/ NextSaga \/ NextItp \/ ItpCancel \/ NextIcp
Spec == Init /\ [][Next]_vars

\* concurrent linker requests
SpecLink == Init /\ [][NextLink]_vars
\* linker requests one at a time
SpecLinkSeq == Init /\ [][NextLinkSeq]_vars
\* one /process_all request
InitSagaRun == LinkIdle /\ InitSaga /\ InitItp /\ InitIcp
SpecSaga == InitSagaRun /\ [][NextSaga]_vars
\* one /generate_itp request
InitItpRun == LinkIdle /\ InitSaga /\ InitItp /\ InitIcp
SpecItp == InitItpRun /\ [][NextItp]_vars
\* one /generate_itp request whose caller may give up while it polls
InitItpCancelRun == LinkIdle /\ InitSaga /\ InitItp /\ InitIcp
NextItpCancel == NextItp \/ ItpCancel
SpecItpCancel == InitItpCancelRun /\ [][NextItpCancel]_vars
\* /generate_icp requests one after the other
InitIcpRun == LinkIdle /\ InitSaga /\ InitItp /\ InitIcp
SpecIcp == InitIcpRun /\ [][NextIcp]_vars

(***************************************************************************)
(* Properties of the linker.                                               *)
(***************************************************************************)
\* loop iteration (p, i) is over before (q, j) begins, in sequential use
Before(p, i, q, j) == p < q \/ (p = q /\ i < j)

\* what request r reported for the record at key k in its response lists
Reported(r, k, field) == req[r].kind = "api" => k \in Range(req[r][field])

\* C1: in sequential use, of two Link calls with the same email and the same
\* lesson UUID v, where the first finds the record without v, the first appends
\* v and writes (reported as updated), the second finds the record and writes
\* nothing (reported as already linked), and the stored subject_list holds v
\* exactly once.
C1_LinkTwiceSequential ==
    \A p, q \in Reqs : \A i \in DOMAIN req[p].trace : \A j \in DOMAIN req[q].trace :
        LET a == req[p].trace[i]
            b == req[q].trace[j]
            v == req[p].uuid
        IN  ( /\ Before(p, i, q, j)
              /\ a.email = b.email
              /\ req[q].uuid = v
              /\ a.found
              /\ v \notin Range(a.snap) )
            => /\ a.wrote
               /\ Reported(p, a.key, "updated")
               /\ b.found
               /\ b.key = a.key
               /\ ~b.wrote
               /\ Reported(q, b.key, "already_linked")
               /\ Count(SubjectList(investor[a.key]), v) = 1

\* two calls, one after the other, with the same email and UUID; the first wrote
C1_Witness ==
    /\ req[1].pc = "done" /\ req[2].pc = "done"
    /\ Len(req[1].trace) = 1 /\ Len(req[2].trace) = 1
    /\ req[1].uuid = req[2].uuid
    /\ req[1].trace[1].email = req[2].trace[1].email
    /\ req[1].trace[1].wrote
    /\ ~req[2].trace[1].wrote
    /\ req[2].trace[1].found

\* C2: no lesson UUID occurs twice in any stored subject_list, whatever the
\* interleaving of the concurrent Link operations.
C2_NoDuplicateUuid ==
    \A k \in Emails : investor[k].present => NoDup(SubjectList(investor[k]))

\* two requests raced on one record with the same UUID: both read it without
\* the UUID, both wrote
C2_Witness ==
    \E i \in DOMAIN req[1].trace : \E j \in DOMAIN req[2].trace :
        LET a == req[1].trace[i]
            b == req[2].trace[j]
        IN  /\ req[1].uuid = req[2].uuid
            /\ a.wrote /\ b.wrote
            /\ a.key = b.key
            /\ req[1].uuid \notin Range(b.snap)
            /\ Count(SubjectList(investor[a.key]), req[1].uuid) = 1

\* iterations (p, i) and (q, j) linked different UUIDs to the same record, each
\* having read the list before the other wrote, and both wrote
Raced(p, i, q, j) ==
    LET a == req[p].trace[i]
        b == req[q].trace[j]
    IN  /\ p # q
        /\ a.wrote /\ b.wrote
        /\ a.key = b.key
        /\ req[p].uuid # req[q].uuid
        /\ req[q].uuid \notin Range(a.snap)
        /\ req[p].uuid \notin Range(b.snap)

\* C3: when two Link operations for the same record and different UUIDs both read
\* before either writes, and both report the UUID as added, then as long as
\* theirs are the last writes of the record the stored subject_list holds the
\* UUID of the later writer and not the UUID of the earlier one: one update is lost.
C3_LostUpdate ==
    \A p, q \in Reqs : \A i \in DOMAIN req[p].trace : \A j \in DOMAIN req[q].trace :
        ( Raced(p, i, q, j) /\ lastw[req[p].trace[i].key] = << p, i >> )
        => LET lst == SubjectList(investor[req[p].trace[i].key])
           IN  /\ req[p].uuid \in Range(lst)
               /\ req[q].uuid \notin Range(lst)
               /\ Reported(p, req[p].trace[i].key, "updated")
               /\ Reported(q, req[q].trace[j].key, "updated")

\* both requests have returned, both report the link as added, one UUID is missing
C3_Witness ==
    /\ req[1].pc = "done" /\ req[2].pc = "done"
    /\ req[1].kind = "api" /\ req[2].kind = "api"
    /\ \E i \in DOMAIN req[1].trace : \E j \in DOMAIN req[2].trace :
           /\ Raced(1, i, 2, j)
           /\ req[1].trace[i].key \in Range(req[1].updated)
           /\ req[2].trace[j].key \in Range(req[2].updated)
           /\ lastw[req[1].trace[i].key] \in { << 1, i >>, << 2, j >> }
           /\ Cardinality({ req[1].uuid, req[2].uuid }
                             \cap Range(SubjectList(investor[req[1].trace[i].key]))) = 1

\* an iteration whose email is not a key of Investor while its lowercase is
NeedsLower(e) == ~investor[e.email].present /\ investor[Lower(e.email)].present

\* C4: an email that is not a key of Investor while its lowercased form is finds
\* the record through the lowercase retry; every write goes to a key that holds
\* a record, the one the writing request read; no record appears under a key
\* that held none.
C4_CaseInsensitiveLink ==
    /\ [](\A r \in Reqs : \A i \in DOMAIN req[r].trace :
            LET e == req[r].trace[i]
            IN  NeedsLower(e) => e.found /\ e.key = Lower(e.email) /\ e.key # e.email)
    /\ [][\A k \in Emails :
            /\ (~investor[k].present => ~investor'[k].present)
            /\ (investor'[k] # investor[k] =>
                  \E r \in Reqs : /\ req[r].pc = "decide"
                                  /\ req[r].resp.found
                                  /\ req[r].resp.item.email = k
                                  /\ Len(req'[r].trace) = Len(req[r].trace) + 1
                                  /\ req'[r].trace[Len(req'[r].trace)].key = k)]_vars

\* a link through the lowercase retry that wrote
C4_Witness ==
    \E r \in Reqs : \E i \in DOMAIN req[r].trace :
        LET e == req[r].trace[i]
        IN  /\ NeedsLower(e)
            /\ e.wrote
            /\ e.key = Lower(e.email)
            /\ req[r].uuid \in Range(SubjectList(investor[Lower(e.email)]))

(***************************************************************************)
(* Properties of /process_all.                                             *)
(***************************************************************************)
\* the list a student's outcome puts the student on
Class(o) ==
    IF ~Truthy(o.sid) THEN "not_found"
    ELSE IF o.status = "assigned" THEN "assigned"
    ELSE "failed"

\* the students, in input order, whose outcome is of class c
RECURSIVE OfClass(_, _, _)
OfClass(students, outcomes, c) ==
    IF students = <<>> THEN <<>>
    ELSE LET rest == OfClass(Tail(students), Tail(outcomes), c)
         IN  IF Class(Head(outcomes)) = c THEN << Head(students) >> \o rest ELSE rest

EmailsOf(entries) == [ i \in DOMAIN entries |-> entries[i].email ]

StepThreeAttempted == \E n \in DOMAIN saga.calls : saga.calls[n] = "get_student"

\* C5: when the student step was attempted and the report is returned, each
\* occurrence of a student email is on exactly one of the three lists, the one
\* its outcome selects (not_found iff no student id, assigned iff the assignment
\* status is "assigned", failed otherwise); the sizes sum to the number of emails.
C5_StudentPartition ==
    ( saga.pc = "done" /\ saga.resp.status = "success" /\ StepThreeAttempted )
    => /\ Len(saga.outcomes) = Len(saga.students)
       /\ EmailsOf(saga.resp.assigned_students) = OfClass(saga.students, saga.outcomes, "assigned")
       /\ saga.resp.not_found_students = OfClass(saga.students, saga.outcomes, "not_found")
       /\ EmailsOf(saga.resp.failed_assignments) = OfClass(saga.students, saga.outcomes, "failed")
       /\ Len(saga.resp.assigned_students) + Len(saga.resp.not_found_students)
            + Len(saga.resp.failed_assignments) = Len(saga.students)

\* three students: one not found, one assigned, one failed
C5_Witness ==
    /\ saga.pc = "done" /\ saga.resp.status = "success"
    /\ Len(saga.students) = 3
    /\ Len(saga.resp.assigned_students) = 1
    /\ Len(saga.resp.not_found_students) = 1
    /\ Len(saga.resp.failed_assignments) = 1

\* C6: when the write of the lesson record fails, no later call is made and
\* the response is the error result.
C6_FatalFirstStep ==
    saga.put = "raised"
    => /\ saga.calls = << "put_item" >>
       /\ saga.pc = "done"
       /\ saga.resp.status = "error"
       /\ ~gradeSubject[saga.uuid].present

\* the write failed
C6_Witness ==
    /\ saga.put = "raised"
    /\ saga.pc = "done"
    /\ saga.resp = [status |-> "error", http |-> 400]

\* C7: once the lesson record is written, the response is the success report,
\* whatever steps 2 to 5 do.
C7_SuccessAfterStepOne ==
    ( saga.pc = "done" /\ saga.put = "ok" ) => saga.resp.status = "success"

\* C8: with a subject id and n students, all n lookups are made, also when a
\* lookup or an assignment of an earlier student fails or raises.
C8_AllStudentsAttempted ==
    ( saga.pc = "done" /\ StepThreeAttempted )
    => Count(saga.calls, "get_student") = Len(saga.students)

\* C9: in every run in which the lesson record was written, the lesson-planner
\* insert is attempted exactly once.
C9_PlannerAlwaysAttempted ==
    ( saga.pc = "done" /\ saga.put = "ok" )
    => Count(saga.calls, "insert_lesson_planner") = 1

(***************************************************************************)
(* Properties of /generate_itp.                                            *)
(***************************************************************************)
\* C10: after a dispatch answered 200 with generating = true for job J, when the
\* status reads give False k times and then True (k < 80), the workflow makes
\* exactly k + 1 polls, one wait of the fixed interval before each, makes no poll
\* after the first True, and returns the success response with the job's id and
\* title; while the reads have all been False and fewer than 80, it is still polling.
C10_PollUntilGenerated ==
    /\ itp.waits = itp.polls + (IF itp.pc = "poll" THEN 1 ELSE 0)
    /\ itp.clock = interval * itp.waits
    /\ itp.nOther = 0 =>
         /\ itp.nTrue <= 1
         /\ itp.nTrue = 1 =>
              /\ itp.pc = "done"
              /\ itp.resp.status = "success"
              /\ itp.resp.http = 200
              /\ itp.resp.payload.data.isGenerated = "True"
              /\ itp.resp.payload.data.body.id = itp.itp_id
              /\ "series_title" \in DOMAIN itp.resp.payload.data.body
              /\ itp.nFalse < max_attempts
              /\ itp.polls = itp.nFalse + 1
              /\ itp.waits = itp.polls
         /\ ( itp.nTrue = 0 /\ itp.itp_id # None /\ itp.nFalse < max_attempts ) =>
              /\ itp.pc \in { "sleep", "poll" }
              /\ itp.polls = itp.nFalse

\* the reads False, False, True: three polls, then the success response
C10_Witness ==
    /\ itp.pc = "done"
    /\ itp.nOther = 0 /\ itp.nFalse = 2 /\ itp.nTrue = 1
    /\ itp.polls = 3 /\ itp.waits = 3 /\ itp.clock = 9
    /\ itp.itp_id = JobId
    /\ itp.resp.status = "success"

\* the steps a /generate_itp request has taken, ending included
ItpMeasure == itp.waits + itp.polls + (IF itp.pc \in {"idle"} THEN 0 ELSE 1)
                 + (IF itp.pc \in {"idle", "dispatch"} THEN 0 ELSE 1)
                 + (IF itp.pc = "done" THEN 1 ELSE 0)

\* C11: whatever the polls read, a /generate_itp request polls at most
\* max_attempts (80) times and sleeps at most as often, every step of it moves
\* it forward under a bound (so it ends), it is never at a poll with 80 polls
\* behind it, and 80 polls in a row that read Generated = False end it with the
\* timeout answer (202) that carries the job id, which is given only after
\* exactly 80 polls.
C11_BoundedDeadline ==
    /\ [](/\ itp.polls <= max_attempts
          /\ itp.waits <= max_attempts
          /\ ItpMeasure <= 2 * max_attempts + 3
          /\ (itp.pc \in {"sleep", "poll"} => itp.polls < max_attempts)
          /\ (itp.nFalse = max_attempts =>
                /\ itp.pc = "done"
                /\ itp.resp.status = "timeout"
                /\ itp.resp.http = 202
                /\ itp.resp.payload = [id |-> JobId])
          /\ (itp.resp.status = "timeout" =>
                itp.polls = max_attempts /\ itp.nTrue = 0))
    /\ [][ItpMeasure' > ItpMeasure]_vars

C11_Witness ==
    /\ itp.nFalse = max_attempts
    /\ itp.polls = max_attempts
    /\ itp.resp.status = "timeout"

\* C12: a poll of /generate_itp that finds no record of the job ends the
\* request at once with an error answer, so no poll follows it.
C12_AbsentRecordIsError ==
    itp.last = "absent" => itp.pc = "done" /\ itp.resp.status = "error"

\* C13: a poll that finds a record whose Generated attribute is neither true nor
\* false ends the request with an error answer: it is not taken as still
\* generating and not answered as generated.
C13_MalformedFlagIsError ==
    itp.last = "other" => itp.pc = "done" /\ itp.resp.status = "error"

\* C14: every poll reads the table the request's predefined flag selects:
\* Question_Prod when it is set, User_ITP_Prod when it is not.
C14_PollsFlaggedStore ==
    itp.tables \subseteq { JobTable(itp.predefined) }

\* the initialize answer that starts the polling
PollingEntered(r) ==
    /\ r.kind = "json"
    /\ r.statusCode = "200"
    /\ r.body.has
    /\ r.body.generating
    /\ r.body.id # Missing

\* C19: /generate_itp sleeps and polls only after the initialize answer had
\* statusCode 200 and a body with generating true; an answer 400 (with its body)
\* is given back as the already-generated report with 400, an answer 200 whose
\* body is not generating is passed through with 200, any other status is
\* answered 400; and in all of these, as after every other initialize answer,
\* the request has ended without a single poll or sleep.
C19_DispatchBranching ==
    LET r == itp.init_resp
    IN  /\ (itp.pc \in {"sleep", "poll"} \/ itp.polls > 0 \/ itp.waits > 0 \/ itp.tables # {})
              => PollingEntered(r)
        /\ (itp.pc \notin {"idle", "dispatch"} /\ ~PollingEntered(r))
              => itp.pc = "done" /\ itp.polls = 0 /\ itp.waits = 0 /\ itp.clock = 0
        /\ (r.kind = "json" /\ r.statusCode = "400" /\ r.body.has)
              => itp.resp = [status |-> "already", http |-> 400,
                             payload |-> [body |-> r.body, statusCode |-> 400]]
        /\ (r.kind = "json" /\ r.statusCode = "200" /\ r.body.has /\ ~r.body.generating)
              => itp.resp = [status |-> "passthrough", http |-> 200,
                             payload |-> [body |-> r.body, statusCode |-> 200]]
        /\ (r.kind = "json" /\ r.statusCode = "500")
              => itp.resp.status = "error" /\ itp.resp.http = 400

C19_Witness ==
    /\ itp.pc = "done"
    /\ itp.init_resp.kind = "json"
    /\ itp.init_resp.statusCode = "200"
    /\ itp.init_resp.body.has
    /\ ~itp.init_resp.body.generating
    /\ itp.resp.status = "passthrough"
    /\ itp.polls = 0

\* a call that failed: it raised, or answered with a status other than 200, or
\* with an empty or non-JSON body
CallFailed(a) ==
    \/ a.kind = "raise"
    \/ a.kind = "http" /\ (a.status # 200 \/ a.t \in {"blank", "text"})

\* C18: in /process_all the subject insert is called only with a school id
\* resolved; if the school lookup or the subject insert failed (raised, status
\* other than 200, empty or non-JSON body) no subject_id is held and the request has
\* not ended in error on it; get_student and assign_subject are called only with
\* a subject_id and at least one student, and without them the three student
\* lists stay empty.
C18_StepTwoAndGuard ==
    /\ Count(saga.calls, "insert_subject") > 0 => Truthy(saga.school_id)
    /\ (CallFailed(saga.school_resp) \/ CallFailed(saga.subject_resp))
          => /\ ~Truthy(saga.subject_id)
             /\ (saga.calls # <<>> /\ saga.calls[Len(saga.calls)] \in {"get_school", "insert_subject"})
                   => saga.resp.status # "error"
    /\ (Count(saga.calls, "get_student") > 0 \/ Count(saga.calls, "assign_subject") > 0)
          => Truthy(saga.subject_id) /\ saga.students # <<>>
    /\ ~(Truthy(saga.subject_id) /\ saga.students # <<>>)
          => saga.assigned = <<>> /\ saga.not_found = <<>> /\ saga.failed = <<>>

\* an earlier /generate_icp request for the same owner and topic that generated
\* the course and had it stored
StoredBefore ==
    \E i \in DOMAIN icp.log :
        /\ icp.log[i].owner = icp.owner
        /\ icp.log[i].topic = icp.topic
        /\ icp.log[i].generated = 1
        /\ icp.log[i].result.kind = "response"
        /\ icp.log[i].result.http = 200

\* C15: of two /generate_icp requests made one after the other for the same
\* owner and topic, the first having generated and stored the course, the second
\* (its body complete) calls neither the generator nor anything downstream, so
\* the generator is called at most once for that owner and topic, and the second
\* is answered that the course already exists.
C15_DedupGuarantee ==
    (StoredBefore /\ icp.complete)
      => /\ icp.generated = 0
         /\ icp.invoked = 0
         /\ icp.gen_calls[<< icp.owner, icp.topic >>] <= 1
         /\ (icp.pc = "done" => icp.result.kind = "response" /\ icp.result.status = "already_exists")

\* the generator answered 200 with a JSON object that has no course
NoCourse(resp) ==
    /\ resp.kind = "http"
    /\ resp.status = 200
    /\ resp.body.t = "json"
    /\ resp.body.v.j = "dict"
    /\ resp.body.v.val = Missing

\* C16: when the generator answers 200 without the course field, /generate_icp
\* ends with a response that reports the malformed answer, and has invoked
\* nothing downstream.
C16_MalformedUpstream ==
    NoCourse(icp.gen_resp)
      => /\ icp.pc = "done"
         /\ icp.result.kind = "response"
         /\ icp.invoked = 0

\* C17: a request of /process_all, /generate_itp or /generate_icp that has made
\* an adapter call and has ended, has ended with a response: no exception left
\* the handler and no branch ended without a return value.
C17_NoEscapingFailure ==
    /\ saga.pc = "done" => saga.resp.status \in { "success", "error" }
    /\ itp.pc = "done"
         => itp.resp.status \in { "success", "timeout", "already", "passthrough", "error" }
    /\ (icp.pc = "done" /\ icp.generated > 0) => icp.result.kind = "response"

\* C20: /generate_icp invokes the function at most once, and only after the
\* generator answered 200 with a course; whatever statusCode the invocation
\* gives, the request is answered with that statusCode and the invocation's
\* body; and a generator status other than 200 is answered as an error.
C20_PredefinedVariant ==
    /\ icp.invoked <= 1
    /\ icp.invoked > 0
          => /\ icp.gen_resp.kind = "http"
             /\ icp.gen_resp.status = 200
             /\ CourseOf(icp.gen_resp) # Raised
    /\ (icp.invoke_resp.kind = "result" /\ icp.invoke_resp.body # Missing)
          => icp.result = IcpResponse(icp.invoke_resp.statusCode, icp.invoke_resp.body)
    /\ (icp.pc = "done" /\ icp.gen_resp.kind = "http" /\ icp.gen_resp.status # 200)
          => icp.result.kind = "response" /\ icp.result.http >= 400

\* no record under the email as given nor under its lowercased form
MissingOwner(e) == ~GetItem(e).found /\ ~GetItem(Lower(e)).found

\* the emails of the loop iterations that found no record, in order
NotFoundEmails(trace) ==
    LET miss == SelectSeq(trace, LAMBDA t : ~t.found)
    IN  [ i \in DOMAIN miss |-> miss[i].email ]

\* C21: an email whose lookups found no record under it nor under its lowercased
\* form is answered not found (for /update_student_subjects: appended to
\* not_found, which the 200 response returns) with no write; the step that
\* decides so leaves the Investor table as it was and goes on to the next email
\* of the request, or to the 200 response after the last one.  So a request
\* answered 200 has processed every email, and a request stops before its last
\* email only when an Investor call raised, never because an owner was missing.
C21_MissingOwner ==
    /\ [](\A r \in Reqs :
            /\ \A i \in DOMAIN req[r].trace :
                  LET t == req[r].trace[i]
                  IN  /\ t.email = req[r].students[i]
                      /\ MissingOwner(t.email) => ~t.found /\ ~t.wrote
            /\ req[r].kind = "api" => req[r].not_found = NotFoundEmails(req[r].trace)
            /\ (req[r].pc = "done" /\ req[r].http = 200)
                  => Len(req[r].trace) = Len(req[r].students) /\ req[r].raised = NoCall
            /\ (req[r].pc = "done" /\ req[r].http # 400
                   /\ Len(req[r].trace) < Len(req[r].students))
                  => req[r].raised # NoCall /\ req[r].http = (IF req[r].kind = "api" THEN 500 ELSE 0))
    /\ [][\A r \in Reqs :
            ( /\ Len(req'[r].trace) = Len(req[r].trace) + 1
              /\ MissingOwner(req[r].students[Len(req[r].trace) + 1]) )
            => /\ investor' = investor
               /\ lastw' = lastw
               /\ req'[r].raised = NoCall
               /\ IF Len(req'[r].trace) < Len(req[r].students)
                  THEN req'[r].pc = "get1" /\ req'[r].i = req[r].i + 1
                  ELSE /\ req'[r].pc = "done"
                       /\ req'[r].http = (IF req[r].kind = "api" THEN 200 ELSE 0)]_vars

C21_Witness ==
    \E r \in Reqs :
        /\ req[r].kind = "api"
        /\ req[r].pc = "done"
        /\ Len(req[r].trace) = 2
        /\ MissingOwner(req[r].trace[1].email)
        /\ req[r].not_found = << req[r].trace[1].email >>
        /\ req[r].trace[2].wrote
        /\ req[r].http = 200

\* C22: no step of /process_all changes or removes a record that is in
\* Grade_and_Subject; once step 1 has written the lesson record under the lesson
\* UUID, the table holds that record, as written, under that UUID and nothing
\* else, through every later step and at the end, whichever step fails and
\* whichever response is given.
C22_ForwardOnly ==
    /\ [](saga.put = "ok"
            => /\ gradeSubject[saga.uuid] =
                    [ present |-> TRUE, id |-> saga.uuid, status |-> "Active",
                      tenantEmail |-> "sierracanyon@edyou.com",
                      quiz_credit |-> 0, course_credit |-> 0 ]
               /\ \A u \in UUIDs \ {saga.uuid} : gradeSubject[u] = NoRecord)
    /\ [][\A u \in UUIDs : gradeSubject[u].present => gradeSubject'[u] = gradeSubject[u]]_vars

C22_Witness ==
    /\ saga.put = "ok"
    /\ saga.pc = "done"
    /\ saga.resp.status = "error"
    /\ Count(saga.calls, "insert_lesson_planner") > 0
    /\ gradeSubject[saga.uuid].present

\* C23: once the caller of /generate_itp has given up during the polling, the
\* request makes at most the poll that was under way, so it stops before the
\* attempts are used up, and unless that poll found the series generated it
\* ends with the timeout answer that carries the job id, not with an error.
C23_PollCancellation ==
    itp.cancelled
      => /\ itp.polls <= itp.cancel_polls + 1
         /\ (itp.pc = "done" /\ itp.resp.status # "success")
               => /\ itp.resp.status = "timeout"
                  /\ itp.resp.payload = [id |-> itp.itp_id]
                  /\ itp.polls < max_attempts

\* one of the calls the success response of /process_all rests on has failed
SagaCallFailed ==
    \/ saga.put = "raised"
    \/ saga.planner_status \notin { NotCalled, 200 }
    \/ saga.planner_error
    \/ saga.teacher_status \notin { NotCalled, 200 }

\* C24: when /process_all answers success (HTTP 200) the lesson record was
\* written, the lesson-planner insert was called once and answered 200 with no
\* error field set, and with a subject_id and a teacher_id both at hand the
\* subject-teacher insert was called once and answered 200; a run in which one
\* of these calls failed never answers success.
C24_SuccessMeansAllOk ==
    /\ (saga.pc = "done" /\ saga.resp.status = "success")
          => /\ saga.resp.http = 200
             /\ saga.put = "ok"
             /\ gradeSubject[saga.uuid].present
             /\ Count(saga.calls, "insert_lesson_planner") = 1
             /\ saga.planner_status = 200
             /\ ~saga.planner_error
             /\ TeacherDue(saga)
                   => /\ Count(saga.calls, "insert_subject_teacher") = 1
                      /\ saga.teacher_status = 200
    /\ SagaCallFailed => saga.resp.status # "success"

C24_Witness ==
    /\ saga.pc = "done"
    /\ saga.resp.status = "success"
    /\ TeacherDue(saga)
    /\ saga.teacher_status = 200
    /\ saga.planner_status = 200

\* the stored keys of the loop iterations of a trace that satisfy Which
KeysWhere(trace, Which(_)) ==
    LET sel == SelectSeq(trace, Which)
    IN  [ i \in DOMAIN sel |-> sel[i].key ]

IsUpdated(t) == t.found /\ t.wrote
IsAlready(t) == t.found /\ ~t.wrote

\* every email of an answered /update_student_subjects request is in exactly one
\* of the three lists, and only the updated ones were written
Classified(r) ==
    /\ Len(req[r].trace) = Len(req[r].students)
    /\ \A i \in DOMAIN req[r].trace : req[r].trace[i].email = req[r].students[i]
    /\ req[r].updated = KeysWhere(req[r].trace, IsUpdated)
    /\ req[r].already_linked = KeysWhere(req[r].trace, IsAlready)
    /\ req[r].not_found = NotFoundEmails(req[r].trace)
    /\ Len(req[r].updated) + Len(req[r].already_linked) + Len(req[r].not_found)
          = Len(req[r].students)

Answered(r) == req[r].kind = "api" /\ req[r].pc = "done" /\ req[r].http = 200

\* C25 as stated: in an answered /update_student_subjects request every email
\* is in exactly one of updated_students, already_linked, not_found, one write
\* was made per updated entry and none for the others, and of two occurrences
\* of the same stored student the first is reported updated and the second
\* already linked.
C25_AsStated ==
    \A r \in Reqs :
        Answered(r)
          => /\ Classified(r)
             /\ \A i, j \in DOMAIN req[r].trace :
                   ( /\ i < j
                     /\ req[r].trace[i].found
                     /\ req[r].trace[j].found
                     /\ req[r].trace[i].key = req[r].trace[j].key )
                   => IsUpdated(req[r].trace[i]) /\ IsAlready(req[r].trace[j])

\* C25, amended: as above, but of two occurrences of the same stored student
\* (in a request no other request runs into) the second is reported already
\* linked, and the first is reported updated exactly when the student did not
\* have the lesson UUID before the request, and already linked otherwise.
C25_Classification ==
    \A r \in Reqs :
        Answered(r)
          => /\ Classified(r)
             /\ \A i, j \in DOMAIN req[r].trace :
                   ( /\ i < j
                     /\ req[r].trace[i].found
                     /\ req[r].trace[j].found
                     /\ req[r].trace[i].key = req[r].trace[j].key )
                   => /\ IsAlready(req[r].trace[j])
                      /\ IsUpdated(req[r].trace[i])
                            <=> req[r].uuid \notin Range(req[r].trace[i].snap)

C25_Witness ==
    \E r \in Reqs :
        /\ Answered(r)
        /\ Len(req[r].trace) = 2
        /\ req[r].students[1] # req[r].students[2]
        /\ req[r].trace[1].key = req[r].trace[2].key
        /\ IsUpdated(req[r].trace[1])
        /\ IsAlready(req[r].trace[2])

====
